---- MODULE Spec2Model ----
(***************************************************************************)
(* The Wiegand line codec of RSID_Face_Guard: the receive side             *)
(* (card_api/card_reader_api.py: edge callback, gap watcher, frame queue,  *)
(* module singleton) and the transmit side (card_writer_api.py: pulse      *)
(* encoder, parity framing, module singleton).                             *)
(*                                                                         *)
(* Integers.  A Python int is unbounded and a 32-bit frame does not fit    *)
(* TLC's integers, so a non-negative Python int is held as its base-65536  *)
(* digits, least significant first, without leading zero digits            *)
(* (0 is <<>>, 0xDEADBEEF is <<48879, 57005>>).  The operators below are   *)
(* the arithmetic the code performs on that representation.                *)
(*                                                                         *)
(* Time.  One Tick is one millisecond, the watcher's poll period           *)
(* (time.sleep(0.001)).  monotonic() - self._last is held as the clock     *)
(* sinceLast, which stops counting at Gap + 2.                             *)
(***************************************************************************)
EXTENDS Integers, Sequences, FiniteSets, TLC

\* ------------------------------------------------------------------ bounds

\* The gap argument of initialize_card_reader, in milliseconds.
Gap == 2
\* Bursts the card head presents in one run of the reader.
MaxBursts == 2
\* Largest timeout, in milliseconds, a caller passes to get_card_id.
MaxTimeout == 2

\* --------------------------------------------------------- program constants

DEFAULT_D0_PIN == 17
DEFAULT_D1_PIN == 27
DEFAULT_D0_TX == 22
DEFAULT_D1_TX == 23
\* "Only enqueue strict 32-bit frames"
FrameBits == 32
DEFAULT_T_LOW_US == 80
DEFAULT_T_SP_US == 2000
MinTLowUs == 20
MinTSpaceUs == 200

\* The bits the first caller of send_w32 has still to send when a second
\* context calls send_w32.
TxOverlap == 1

\* The most edges that fire while one run of the script's flush is under
\* way.
MaxRace == 2

None == "None"

\* get_card_id(timeout=None): no timeout, the default
NoTimeout == -1

\* ------------------------------------------------------- Python int helpers

Min(a, b) == IF a < b THEN a ELSE b
Max(a, b) == IF a > b THEN a ELSE b

RECURSIVE Pow2(_)
Pow2(k) == IF k = 0 THEN 1 ELSE 2 * Pow2(k - 1)

RECURSIVE Normalize(_)
\* Drop leading (most significant) zero digits.
Normalize(ls) ==
    IF ls = <<>> THEN <<>>
    ELSE IF ls[Len(ls)] = 0 THEN Normalize(SubSeq(ls, 1, Len(ls) - 1))
    ELSE ls

RECURSIVE ShlCarry(_, _)
ShlCarry(ls, c) ==
    IF ls = <<>> THEN (IF c = 0 THEN <<>> ELSE <<c>>)
    ELSE LET x == Head(ls) * 2 + c
         IN  <<x % 65536>> \o ShlCarry(Tail(ls), x \div 65536)

\* Mutant: the bit is not or-ed in.
ShiftOnly(value, b) == ShlCarry(value, 0)

\* (value << 1) | b
ShiftOr(value, b) == ShlCarry(value, b)

\* value & ((1 << k) - 1)
AndMask(value, k) ==
    Normalize([i \in 1..Min(Len(value), (k + 15) \div 16) |->
        IF i * 16 <= k THEN value[i] ELSE value[i] % Pow2(k - (i - 1) * 16)])

\* Bit i (0 = least significant) of value.
BitOf(value, i) ==
    IF (i \div 16) + 1 > Len(value) THEN 0
    ELSE (value[(i \div 16) + 1] \div Pow2(i % 16)) % 2

RECURSIVE DigitFrom(_, _, _)
\* Bits lo .. lo + 15 of value, from bit lo + b on, weighted from 2^b.
DigitFrom(value, lo, b) ==
    IF b = 16 THEN 0
    ELSE BitOf(value, lo + b) * Pow2(b) + DigitFrom(value, lo, b + 1)

\* value >> k
Shr(value, k) ==
    Normalize([j \in 1..Len(value) |-> DigitFrom(value, 16 * (j - 1) + k, 0)])

\* A value below 2^16 as a number.
ToInt(value) == IF value = <<>> THEN 0 ELSE value[1]

RECURSIVE DigitLen(_)
DigitLen(x) == IF x = 0 THEN 0 ELSE 1 + DigitLen(x \div 2)

BitLength(value) ==
    IF value = <<>> THEN 0
    ELSE 16 * (Len(value) - 1) + DigitLen(value[Len(value)])

\* f"{value:0{width}b}": the binary digits, most significant first, padded
\* on the left with '0' to at least width characters.
FormatBin(value, width) ==
    LET n == Max(BitLength(value), 1)
        digits == [i \in 1..n |-> IF BitOf(value, n - i) = 1 THEN "1" ELSE "0"]
    IN  [i \in 1..Max(width - n, 0) |-> "0"] \o digits

\* str.count('1')
CountOnes(s) == Cardinality({i \in 1..Len(s) : s[i] = "1"})

\* ------------------------------------------------------- transmitter: frames

\* Mutant: the mask is forgotten.
W32BitsNoMask(value) == FormatBin(value, 32)

\* _WiegandTx.send_w32: bits = f"{value & 0xFFFFFFFF:032b}"
W32Bits(value) == FormatBin(AndMask(value, 32), 32)

\* p1 = '0' if (first15.count('1') % 2) else '1'
ParityLead(first15) == IF CountOnes(first15) % 2 # 0 THEN "0" ELSE "1"

\* p2 = '1' if (last15.count('1') % 2) else '0'
ParityTrail(last15) == IF CountOnes(last15) % 2 # 0 THEN "1" ELSE "0"

\* Mutant: the 30-bit mask is forgotten.
Data30NoMask(value) == FormatBin(value, 30)

\* send_w32_parity_1_30_1: data30 = f"{value & ((1<<30)-1):030b}"
Data30(value) == FormatBin(AndMask(value, 30), 30)

\* _WiegandTx.send_w32_parity_1_30_1: frame = p1 + data30 + p2
ParityFrame(value) ==
    LET data30  == Data30(value)
        first15 == SubSeq(data30, 1, 15)
        last15  == SubSeq(data30, 16, Len(data30))
    IN  <<ParityLead(first15)>> \o data30 \o <<ParityTrail(last15)>>

\* ---------------------------------------------------------- receiver: frames

RECURSIVE FoldLsbFirst(_, _, _)
\* Mutant: the last captured bit is taken as most significant.
FoldLsbFirst(bs, i, value) ==
    IF i > Len(bs) THEN value
    ELSE CHOOSE r \in { FoldLsbFirst(bs, i + 1, next) :
                           next \in {ShiftOr(value, bs[Len(bs) + 1 - i])} } : TRUE

RECURSIVE FoldBits(_, _, _)
\* _frame_watcher: for b in self._bits: value = (value << 1) | b
\* (the loop from its i-th iteration on, value being the running result;
\* the one-element set makes TLC compute next, the value after the i-th
\* iteration, before it goes on to the next iteration)
FoldBits(bs, i, value) ==
    IF i > Len(bs) THEN value
    ELSE CHOOSE r \in { FoldBits(bs, i + 1, next) :
                           next \in {ShiftOr(value, bs[i])} } : TRUE

\* Mutant of FrameValue.
FrameValueLsbFirst(bs) == FoldLsbFirst(bs, 1, <<>>)

\* _frame_watcher: value = 0; for b in self._bits: ...
FrameValue(bs) == FoldBits(bs, 1, <<>>)

\* --------------------------------------------------------------------- state

VARIABLES
    \* card_reader_api: the module global and the fields of _WiegandReader
    instance,     \* _instance: None or "reader"
    rxCfg,        \* d0, d1 and gap of the reader (gap in milliseconds)
    h,            \* _h: None or "open"
    cb0, cb1,     \* _cb0, _cb1: None, "on" (registered) or "cancelled"
    bits,         \* _bits
    sinceLast,    \* monotonic() - _last, counted up to Gap + 2
    lock,         \* _lock: "free" or its holder
    frames,       \* _frames, the queue.Queue
    stop,         \* _stop, the threading.Event
    thread,       \* _thread running _frame_watcher: its position
    slept,        \* the watcher's time.sleep(0.001) has elapsed
    wframe,       \* the watcher's locals n and value (NoFrame outside a finalization)
    ipc,          \* the position of the context calling initialize / disconnect
    \* the caller of get_card_id
    gpc,          \* "idle" or "waiting" (inside queue.get)
    gtimeout,     \* the timeout of the call in progress
    gwaited,      \* milliseconds spent in queue.get
    gresult,      \* how the last call ended: "frame", "None" or an error
    ginit,        \* initialize_card_reader had completed when it was made
    got,          \* the values get_card_id has returned, in order
    gpc2,         \* a second caller of get_card_id: "idle" or "waiting"
    took,         \* which caller each value of got was returned to
    \* the two data rails between a card head (or the transmitter) and the reader
    wire,         \* rails pulsed in the current burst, in order
    delivered,    \* how many of them the callback thread has delivered
    sincePulse,   \* milliseconds since the last pulse, counted up to Gap + 2
    burst,        \* the burst on the wire: its code, its length, the silence
                  \* before it, whether its edges were all captured, alone
    prev,         \* the burst before it
    nbursts,      \* bursts presented so far
    log,          \* every finalization: [n, value]
    puts,         \* every value put on _frames, in order
    calls,        \* the last call of each lifecycle operation: the state it
                  \* found, the lgpio calls it made and how it ended
    edges,        \* every bit _on_edge appended to _bits, in order
    lastGpio,     \* the gpio argument of the last call of _on_edge
    \* card_writer_api: the module global and the fields of _WiegandTx
    txInstance,   \* _instance: None or "tx"
    txH,          \* _h
    activeHigh,   \* active_high
    txTiming,     \* t_low_us and t_space_us
    level,        \* the level last written to each output line
    txpc,         \* position of the caller inside send_bits_msb_first
    txBits,       \* the characters of bits not yet sent
    txCall,       \* the last call of a send operation and its outcome
    txpc2,        \* position of a second caller inside send_bits_msb_first
    txBits2       \* the characters of its bits not yet sent

readerVars == <<instance, rxCfg, h, cb0, cb1, bits, sinceLast, lock, frames, stop,
                thread, slept, wframe, ipc>>
getVars    == <<gpc, gtimeout, gwaited, gresult, ginit, got, gpc2, took>>
wireVars   == <<wire, delivered, sincePulse, burst, prev, nbursts>>
histVars   == <<log, puts, calls, edges, lastGpio>>
txVars     == <<txInstance, txH, activeHigh, txTiming, level, txpc, txBits, txCall,
                txpc2, txBits2>>
vars       == <<readerVars, getVars, wireVars, histVars, txVars>>

\* 0xDEADBEEF
DeadBeef == <<48879, 57005>>

\* The integers callers pass to the send operations: 0, 1, 0xDEADBEEF,
\* 0xFFFFFFFF, 0x80000000, 0x3FFF8000, 0x40004001 and two values above
\* 32 bits, 0x1DEADBEEF and 0x7_1234_5678.
TxValues ==
    { <<>>, <<1>>, DeadBeef, <<65535, 65535>>, <<0, 32768>>, <<32768, 16383>>,
      <<16385, 16384>>, <<48879, 57005, 1>>, <<22136, 4660, 7>> }

NoCall == [op |-> "none", value |-> <<>>, initialized |-> FALSE, outcome |-> "none"]

\* _frame_watcher is not finalizing: its locals value and n are not set.
NoFrame == [n |-> 0, value |-> <<>>]

\* No call of _on_edge yet.
NoGpio == 0

\* initialize_card_reader(): d0_pin, d1_pin and gap by default (the gap in
\* milliseconds: Gap stands for DEFAULT_GAP)
DefaultRxCfg == [d0 |-> DEFAULT_D0_PIN, d1 |-> DEFAULT_D1_PIN, gap |-> Gap]

\* initialize_wiegand_tx(): t_low_us, t_space_us (in tenths of a
\* microsecond) and active_high by default
DefaultTxAsked ==
    [t_low_us |-> 10 * DEFAULT_T_LOW_US, t_space_us |-> 10 * DEFAULT_T_SP_US,
     active_high |-> TRUE]

\* A call of initialize_card_reader: the reader was started when it was
\* made; gpiochip_open, gpio_claim_alert, lgpio.callback (how many) and
\* Thread.start were called; the lgpio call that raised.
NoInit == [started |-> FALSE, opened |-> FALSE, claimed |-> FALSE,
           registered |-> 0, spawned |-> FALSE, failed |-> "none",
           outcome |-> "none", created |-> FALSE, asked |-> DefaultRxCfg]

\* A call of disconnect_card_reader: _instance was set when it was made;
\* stop() was called; callbacks cancelled; gpiochip_close was called; the
\* finalizations made before it returned.
NoDisc == [had |-> FALSE, stopped |-> FALSE, cancelled |-> 0,
           closed |-> FALSE, logs |-> 0, outcome |-> "none"]

\* A call of initialize_wiegand_tx: the transmitter was started when it was
\* made; gpiochip_open and gpio_claim_output were called.
NoTxInit == [started |-> FALSE, opened |-> FALSE, claimed |-> FALSE,
             failed |-> "none", outcome |-> "none", created |-> FALSE,
             asked |-> DefaultTxAsked]

\* A call of close_wiegand_tx.
NoTxClose == [had |-> FALSE, closed |-> FALSE, outcome |-> "none"]

NoCalls == [init |-> NoInit, disc |-> NoDisc, txinit |-> NoTxInit,
            txclose |-> NoTxClose]

TxPins == {DEFAULT_D0_TX, DEFAULT_D1_TX}

\* --------------------------------------------------------------- transmitter

\* Mutant: the polarity is ignored, active is always written as 1.
DriveLevelHigh(on, ah) == IF on THEN 1 ELSE 0

\* _WiegandTx._drive: val = 1 if (on == self.active_high) else 0
DriveLevel(on, ah) == IF on = ah THEN 1 ELSE 0

\* _WiegandTx._idle: val = 0 if self.active_high else 1
IdleLevel(ah) == IF ah THEN 0 ELSE 1

\* _WiegandTx.start: gpio_claim_output(.., 0 if self.active_high else 1)
ClaimLevel(ah) == IF ah THEN 0 ELSE 1

\* The rail a transmitter pin drives.
TxRail(pin) == IF pin = DEFAULT_D1_TX THEN "D1" ELSE "D0"

\* Mutant: the guard of the send operations is missing.
NeverNotInitialized(inst) == FALSE

\* send_w32 / send_w32_parity_1_30_1: if _instance is None: raise RuntimeError
NotInitialized(inst) == inst = None

\* Mutant: start has no early return.
TxNeverStarted(hh) == FALSE

\* _WiegandTx.start: if self._h is not None: return
TxAlreadyStarted(hh) == hh # None

\* int(x) for x given in tenths: the fraction is dropped, towards zero
IntOf(tenths) ==
    IF tenths >= 0 THEN tenths \div 10 ELSE 0 - ((0 - tenths) \div 10)

\* _WiegandTx.__init__: self.t_low_us = max(20, int(t_low_us))
TLow(tenths) == Max(MinTLowUs, IntOf(tenths))

\* _WiegandTx.__init__: self.t_space_us = max(200, int(t_space_us))
TSpace(tenths) == Max(MinTSpaceUs, IntOf(tenths))

\* _WiegandReader.__init__: self.gap = gap
ReaderGap(gap) == gap

\* Mutant: every initialize call builds a new object from its arguments.
ConfigNew(inst, old, new) == new

\* initialize_*: if _instance is None: _instance = ...(arguments); the
\* fields of an existing instance are kept
ConfigOf(inst, old, new) == IF inst = None THEN new ELSE old

\* initialize_wiegand_tx(t_low_us=tl, t_space_us=ts, active_high=ah), with
\* _WiegandTx.__init__ and start
InitializeWiegandTxWith(tl, ts, ah) ==
    /\ txpc = "idle"
    /\ txInstance' = "tx"
    /\ activeHigh' = ConfigOf(txInstance, activeHigh, ah)
    /\ txTiming' = ConfigOf(txInstance, txTiming,
                            [t_low_us |-> TLow(tl), t_space_us |-> TSpace(ts)])
    /\ IF TxAlreadyStarted(txH)
          THEN /\ UNCHANGED <<txH, level>>
               /\ calls' = [calls EXCEPT !.txinit =
                      [NoTxInit EXCEPT !.started = txH # None,
                                       !.created = txInstance = None,
                                       !.asked = [t_low_us |-> tl,
                                                  t_space_us |-> ts,
                                                  active_high |-> ah],
                                       !.outcome = "ok"]]
          ELSE /\ txH' = "open"
               /\ level' = [p \in TxPins |-> ClaimLevel(activeHigh')]
               /\ calls' = [calls EXCEPT !.txinit =
                      [NoTxInit EXCEPT !.started = txH # None,
                                       !.created = txInstance = None,
                                       !.asked = [t_low_us |-> tl,
                                                  t_space_us |-> ts,
                                                  active_high |-> ah],
                                       !.opened = TRUE, !.claimed = TRUE,
                                       !.outcome = "ok"]]
    /\ UNCHANGED <<txpc, txBits, txCall, txpc2, txBits2, readerVars, getVars,
                   wireVars, log, puts, edges, lastGpio>>

\* initialize_wiegand_tx(active_high=ah), the timings by default
InitializeWiegandTx(ah) ==
    InitializeWiegandTxWith(DefaultTxAsked.t_low_us, DefaultTxAsked.t_space_us,
                            ah)

\* Mutant: a failed lgpio call is tried again.
RetryAfterFailure(pos) == pos

\* start (of the reader and of the transmitter) guards no lgpio call with
\* try/except: an exception leaves start and the initialize function
AfterFailure(pos) == "idle"

\* initialize_wiegand_tx: gpiochip_open (step "open") or gpio_claim_output
\* (step "claim") raises
InitializeWiegandTxFails(ah, step) ==
    /\ txpc = "idle"
    /\ ~TxAlreadyStarted(txH)
    /\ txInstance' = "tx"
    /\ activeHigh' = ConfigOf(txInstance, activeHigh, ah)
    /\ txTiming' = ConfigOf(txInstance, txTiming,
                            [t_low_us |-> TLow(DefaultTxAsked.t_low_us),
                             t_space_us |-> TSpace(DefaultTxAsked.t_space_us)])
    /\ txH' = IF step = "open" THEN txH ELSE "open"
    /\ calls' = [calls EXCEPT !.txinit =
           [NoTxInit EXCEPT !.opened = TRUE, !.claimed = (step = "claim"),
                            !.created = txInstance = None,
                            !.asked = [DefaultTxAsked EXCEPT !.active_high = ah],
                            !.failed = step,
                            !.outcome = IF AfterFailure(step) = "idle"
                                           THEN "error" ELSE "ok"]]
    /\ UNCHANGED <<level, txpc, txBits, txCall, txpc2, txBits2, readerVars,
                   getVars,
                   wireVars, log, puts, edges, lastGpio>>

\* The frame a send operation transmits.
TxFrame(op, value) ==
    IF op = "send_w32" THEN W32Bits(value) ELSE ParityFrame(value)

\* send_w32(value) / send_w32_parity_1_30_1(value) up to the first pulse
SendCall(op, value) ==
    /\ txpc = "idle"
    /\ IF NotInitialized(txInstance)
          THEN /\ txCall' = [op |-> op, value |-> value,
                             initialized |-> txInstance # None,
                             outcome |-> "RuntimeError"]
               /\ UNCHANGED <<txpc, txBits, wire, delivered>>
          ELSE IF op = "send_w32_parity_1_30_1" /\ Len(TxFrame(op, value)) # 32
          THEN /\ txCall' = [op |-> op, value |-> value,
                             initialized |-> txInstance # None,
                             outcome |-> "AssertionError"]
               /\ UNCHANGED <<txpc, txBits, wire, delivered>>
          ELSE /\ txCall' = [op |-> op, value |-> value,
                             initialized |-> txInstance # None,
                             outcome |-> "sending"]
               /\ txBits' = TxFrame(op, value)
               /\ txpc' = "drive"
               /\ wire' = <<>>
               /\ delivered' = 0
    /\ UNCHANGED <<txInstance, txH, activeHigh, txTiming, level, txpc2, txBits2>>

Send(op, value) ==
    /\ SendCall(op, value)
    /\ UNCHANGED <<sincePulse, burst, prev, nbursts, readerVars, getVars,
                   histVars>>

\* Mutant: every bit is pulsed on D0.
PulsePinD0 == DEFAULT_D0_TX

\* _pulse_bit: pin = self.d1 if bit1 else self.d0; self._drive(pin, True)
PulsePin == IF Head(txBits) = "1" THEN DEFAULT_D1_TX ELSE DEFAULT_D0_TX

PulseDrive ==
    /\ txpc = "drive"
    /\ level' = [p \in TxPins |->
                    IF p = PulsePin THEN DriveLevel(TRUE, activeHigh)
                    ELSE IF p \in DOMAIN level THEN level[p] ELSE IdleLevel(activeHigh)]
    /\ wire' = Append(wire, TxRail(PulsePin))
    /\ txpc' = "low"
    /\ UNCHANGED <<txInstance, txH, activeHigh, txTiming, txBits, txCall, txpc2, txBits2,
                   delivered,
                   sincePulse, burst, prev, nbursts, readerVars, getVars,
                   histVars>>

\* _pulse_bit: self._idle(pin), and the loop of send_bits_msb_first
PulseIdle ==
    /\ txpc = "low"
    /\ level' = [level EXCEPT ![PulsePin] = IdleLevel(activeHigh)]
    /\ txBits' = Tail(txBits)
    /\ IF Tail(txBits) = <<>>
          THEN /\ txpc' = "idle"
               /\ txCall' = [txCall EXCEPT !.outcome = "ok"]
          ELSE /\ txpc' = "drive"
               /\ UNCHANGED txCall
    /\ UNCHANGED <<txInstance, txH, activeHigh, txTiming, txpc2, txBits2, wireVars,
                   readerVars, getVars, histVars>>

\* The pulses the first caller has emitted of its frame.
Pulsed == FrameBits - Len(txBits) + (IF txpc = "low" THEN 1 ELSE 0)

\* send_w32(value) called by a second context while the first caller is
\* inside send_bits_msb_first with at most TxOverlap bits to go (once per
\* frame of the first caller), up to its first pulse
Send2(value) ==
    /\ txpc2 = "idle"
    /\ ~NotInitialized(txInstance)
    /\ txpc # "idle" /\ Len(txBits) <= TxOverlap
    /\ Len(wire) = Pulsed
    /\ txBits2' = W32Bits(value)
    /\ txpc2' = "drive"
    /\ UNCHANGED <<txInstance, txH, activeHigh, txTiming, level, txpc, txBits, txCall,
                   wireVars, readerVars, getVars, histVars>>

\* _pulse_bit of the second caller: pin = self.d1 if bit1 else self.d0
PulsePin2 == IF Head(txBits2) = "1" THEN DEFAULT_D1_TX ELSE DEFAULT_D0_TX

\* _pulse_bit of the second caller: self._drive(pin, True)
PulseDrive2 ==
    /\ txpc2 = "drive"
    /\ level' = [level EXCEPT ![PulsePin2] = DriveLevel(TRUE, activeHigh)]
    /\ wire' = Append(wire, TxRail(PulsePin2))
    /\ txpc2' = "low"
    /\ UNCHANGED <<txInstance, txH, activeHigh, txTiming, txpc, txBits, txCall, txBits2,
                   delivered, sincePulse, burst, prev, nbursts, readerVars,
                   getVars, histVars>>

\* _pulse_bit of the second caller: self._idle(pin), and the loop of
\* send_bits_msb_first
PulseIdle2 ==
    /\ txpc2 = "low"
    /\ level' = [level EXCEPT ![PulsePin2] = IdleLevel(activeHigh)]
    /\ txBits2' = Tail(txBits2)
    /\ txpc2' = IF Tail(txBits2) = <<>> THEN "idle" ELSE "drive"
    /\ UNCHANGED <<txInstance, txH, activeHigh, txTiming, txpc, txBits, txCall,
                   wireVars, readerVars, getVars, histVars>>

\* close_wiegand_tx: if _instance is not None, and _WiegandTx.close:
\* if self._h is not None: gpiochip_close is called
TxCloses(inst, hh) == inst # None /\ hh # None

\* close_wiegand_tx, with _WiegandTx.close
CloseWiegandTx ==
    /\ txpc = "idle"
    /\ txInstance' = None
    /\ txH' = IF txInstance # None THEN None ELSE txH
    /\ calls' = [calls EXCEPT !.txclose =
           [had |-> txInstance # None, closed |-> TxCloses(txInstance, txH),
            outcome |-> "ok"]]
    /\ UNCHANGED <<activeHigh, txTiming, level, txpc, txBits, txCall, txpc2, txBits2,
                   readerVars,
                   getVars, wireVars, log, puts, edges, lastGpio>>

\* -------------------------------------------------- receiver: the lifecycle

Alive == thread \in {"loop", "sleep", "locked", "folded", "cleared"}

\* A call of initialize_card_reader has run to its end (the watcher was
\* started) and the reader was not disconnected since.
Initialized == instance # None /\ Alive /\ ~stop

\* initialize_card_reader: if _instance is None: _instance = _WiegandReader(..)
\* (a new reader is built only once the previous reader's watcher has ended
\* and no caller still waits on its queue: the fields below are those of the
\* one reader object in use)
InitCreateWith(cfg) ==
    /\ ipc = "idle"
    /\ IF instance = None
          THEN /\ ~Alive
               /\ gpc = "idle"
               /\ instance' = "reader"
               /\ rxCfg' = [cfg EXCEPT !.gap = ReaderGap(cfg.gap)]
               /\ h' = None
               /\ cb0' = None
               /\ cb1' = None
               /\ bits' = <<>>
               /\ sinceLast' = 0
               /\ lock' = "free"
               /\ frames' = <<>>
               /\ stop' = FALSE
               /\ thread' = "new"
               /\ slept' = FALSE
               /\ wframe' = NoFrame
          ELSE UNCHANGED <<instance, rxCfg, h, cb0, cb1, bits, sinceLast, lock, frames,
                           stop, thread, slept, wframe>>
    /\ ipc' = "start"
    /\ calls' = [calls EXCEPT !.init =
           [NoInit EXCEPT !.started = Initialized, !.outcome = "running",
                          !.created = instance = None, !.asked = cfg]]
    /\ UNCHANGED <<getVars, wireVars, log, puts, edges, lastGpio, txVars>>

\* initialize_card_reader(), pins and gap by default
InitCreate == InitCreateWith(DefaultRxCfg)

\* Mutant: start has no early return.
NeverStarted(hh) == FALSE

\* _WiegandReader.start: if self._h is not None: return  # already started
AlreadyStarted(hh) == hh # None

\* _WiegandReader.start: if self._h is not None: return;
\* self._h = lgpio.gpiochip_open(..)
StartOpen ==
    /\ ipc = "start"
    /\ IF AlreadyStarted(h)
          THEN /\ ipc' = "idle"
               /\ calls' = [calls EXCEPT !.init.outcome = "ok"]
               /\ UNCHANGED h
          ELSE /\ ipc' = "claim"
               /\ h' = "open"
               /\ calls' = [calls EXCEPT !.init.opened = TRUE]
    /\ UNCHANGED <<instance, rxCfg, cb0, cb1, bits, sinceLast, lock, frames, stop,
                   thread, slept, wframe, getVars, wireVars, log, puts, edges, lastGpio, txVars>>

\* start: the two gpio_claim_alert calls
StartClaim ==
    /\ ipc = "claim"
    /\ ipc' = "cb0"
    /\ calls' = [calls EXCEPT !.init.claimed = TRUE]
    /\ UNCHANGED <<instance, rxCfg, h, cb0, cb1, bits, sinceLast, lock, frames, stop,
                   thread, slept, wframe, getVars, wireVars, log, puts, edges, lastGpio, txVars>>

\* start: self._cb0 = lgpio.callback(.., self.d0, ..)
StartCb0 ==
    /\ ipc = "cb0"
    /\ cb0' = "on"
    /\ ipc' = "cb1"
    /\ calls' = [calls EXCEPT !.init.registered = @ + 1]
    /\ UNCHANGED <<instance, rxCfg, h, cb1, bits, sinceLast, lock, frames, stop,
                   thread, slept, wframe, getVars, wireVars, log, puts, edges, lastGpio, txVars>>

\* start: self._cb1 = lgpio.callback(.., self.d1, ..)
StartCb1 ==
    /\ ipc = "cb1"
    /\ cb1' = "on"
    /\ ipc' = "thread"
    /\ calls' = [calls EXCEPT !.init.registered = @ + 1]
    /\ UNCHANGED <<instance, rxCfg, h, cb0, bits, sinceLast, lock, frames, stop,
                   thread, slept, wframe, getVars, wireVars, log, puts, edges, lastGpio, txVars>>

\* start: self._stop.clear(); if not self._thread.is_alive(): start a thread
StartThread ==
    /\ ipc = "thread"
    /\ stop' = FALSE
    /\ thread' = IF Alive THEN thread ELSE "loop"
    /\ ipc' = "idle"
    /\ calls' = [calls EXCEPT !.init.spawned = ~Alive, !.init.outcome = "ok"]
    /\ UNCHANGED <<instance, rxCfg, h, cb0, cb1, bits, sinceLast, lock, frames,
                   slept, wframe, getVars, wireVars, log, puts, edges, lastGpio, txVars>>

\* start: gpiochip_open, gpio_claim_alert or lgpio.callback raises
StartFails ==
    /\ ipc \in {"start", "claim", "cb0", "cb1"}
    /\ ipc = "start" => ~AlreadyStarted(h)
    /\ ipc' = AfterFailure(ipc)
    /\ calls' = [calls EXCEPT
           !.init.opened = @ \/ ipc = "start",
           !.init.claimed = @ \/ ipc = "claim",
           !.init.registered = IF ipc \in {"cb0", "cb1"} THEN @ + 1 ELSE @,
           !.init.failed = ipc,
           !.init.outcome = IF ipc' = "idle" THEN "error" ELSE @]
    /\ UNCHANGED <<instance, rxCfg, h, cb0, cb1, bits, sinceLast, lock, frames, stop,
                   thread, slept, wframe, getVars, wireVars, log, puts, edges, lastGpio, txVars>>

\* Mutant: disconnect_card_reader does not test _instance.
AlwaysHasReader(inst) == TRUE

\* disconnect_card_reader: if _instance is not None
HasReader(inst) == inst # None

\* disconnect_card_reader, with _WiegandReader.stop, whatever another
\* context is doing
Disconnect ==
    /\ IF HasReader(instance)
          THEN /\ stop' = TRUE
               /\ cb0' = IF cb0 # None THEN "cancelled" ELSE cb0
               /\ cb1' = IF cb1 # None THEN "cancelled" ELSE cb1
               /\ h' = None
               /\ instance' = None
               /\ calls' = [calls EXCEPT !.disc =
                      [had |-> instance # None, stopped |-> TRUE,
                       cancelled |-> (IF cb0 = "on" THEN 1 ELSE 0)
                                     + (IF cb1 = "on" THEN 1 ELSE 0),
                       closed |-> h # None,
                       logs |-> Len(log),
                       outcome |-> IF instance = None
                                      THEN "AttributeError" ELSE "ok"]]
          ELSE /\ UNCHANGED <<stop, cb0, cb1, h, instance>>
               /\ calls' = [calls EXCEPT !.disc =
                      [NoDisc EXCEPT !.had = instance # None,
                                     !.logs = Len(log),
                                     !.outcome = "ok"]]
    /\ burst' = [burst EXCEPT !.whole = FALSE]
    /\ UNCHANGED <<rxCfg, bits, sinceLast, lock, frames, thread, slept, wframe, ipc,
                   getVars, wire, delivered, sincePulse, prev, nbursts,
                   log, puts, edges, lastGpio, txVars>>

\* disconnect_card_reader called by the context that calls
\* initialize_card_reader, between two calls of it
DisconnectCardReader == ipc = "idle" /\ Disconnect

\* ------------------------------------------------ receiver: edges and frames

\* The reader line a rail is wired to.
RxGpio(rail) == IF rail = "D0" THEN DEFAULT_D0_PIN ELSE DEFAULT_D1_PIN

\* Mutant: the new bit is put in front of the accumulator.
OnEdgeBitsFront(bs, gpio) ==
    IF gpio = DEFAULT_D0_PIN THEN <<0>> \o bs
    ELSE IF gpio = DEFAULT_D1_PIN THEN <<1>> \o bs
    ELSE bs

\* _on_edge: self._bits after the call
OnEdgeBits(bs, gpio) ==
    IF gpio = DEFAULT_D0_PIN THEN Append(bs, 0)
    ELSE IF gpio = DEFAULT_D1_PIN THEN Append(bs, 1)
    ELSE bs

\* Mutant: the timestamp is taken for any line.
OnEdgeLastAny(since, gpio) == 0

\* _on_edge: monotonic() - self._last after the call
OnEdgeLast(since, gpio) ==
    IF gpio \in {DEFAULT_D0_PIN, DEFAULT_D1_PIN} THEN 0 ELSE since

\* Mutant: a silence equal to the gap ends the burst.
ExpiredAtGap(elapsed, gap) == elapsed >= gap

\* Mutant: the silence has to exceed the gap by one more millisecond.
ExpiredLate(elapsed, gap) == elapsed > gap + 1

\* _frame_watcher: (time.monotonic() - self._last) > self.gap
Expired(elapsed, gap) == elapsed > gap

\* Mutant: no frame is forwarded.
AcceptNone(n) == FALSE

\* Mutant: every frame is forwarded.
AcceptAny(n) == TRUE

\* _frame_watcher: if n == 32
Accept(n) == n = FrameBits

NextRail == wire[delivered + 1]

\* The first pulse of a burst follows the previous burst by more than Gap.
PulseDue ==
    /\ delivered < Len(wire)
    /\ (delivered = 0 /\ nbursts > 1) => sincePulse > Gap

\* What the first pulse of a burst records about it.
Arrive(b, captured) ==
    [b EXCEPT !.sep   = IF delivered = 0 THEN sincePulse ELSE @,
              !.alone = IF delivered = 0 THEN bits = <<>> ELSE @,
              !.puts  = IF delivered = 0 THEN Len(puts) ELSE @,
              !.logs  = IF delivered = 0 THEN Len(log) ELSE @,
              !.whole = @ /\ captured]

\* Mutant: _on_edge does not take the lock.
LockIgnored(l) == TRUE

\* _on_edge: with self._lock (the callback waits until the lock is free)
LockFree(l) == l = "free"

\* A pulse on a rail whose callback is registered: _on_edge(gpio), from
\* the entry of `with self._lock` to its exit
OnEdge ==
    /\ PulseDue
    /\ (IF NextRail = "D0" THEN cb0 ELSE cb1) = "on"
    /\ LockFree(lock)
    /\ bits' = OnEdgeBits(bits, RxGpio(NextRail))
    /\ sinceLast' = OnEdgeLast(sinceLast, RxGpio(NextRail))
    /\ edges' = edges \o SubSeq(bits', Len(bits) + 1, Len(bits'))
    /\ lastGpio' = RxGpio(NextRail)
    /\ delivered' = delivered + 1
    /\ sincePulse' = 0
    /\ burst' = Arrive(burst, Alive /\ ~stop)
    /\ UNCHANGED <<instance, rxCfg, h, cb0, cb1, lock, frames, stop, thread, slept,
                   wframe, ipc, wire, prev, nbursts, getVars, log, puts,
                   calls, txVars>>

\* Lines other than the reader's two rails.
StrayGpios == {DEFAULT_D0_TX, DEFAULT_D1_TX}

\* _on_edge(gpio) called for a line that is neither self.d0 nor self.d1
OnEdgeStray(g) ==
    /\ cb0 = "on" /\ cb1 = "on"
    /\ LockFree(lock)
    /\ bits' = OnEdgeBits(bits, g)
    /\ sinceLast' = OnEdgeLast(sinceLast, g)
    /\ edges' = edges \o SubSeq(bits', Len(bits) + 1, Len(bits'))
    /\ lastGpio' = g
    /\ UNCHANGED <<instance, rxCfg, h, cb0, cb1, lock, frames, stop, thread, slept,
                   wframe, ipc, wireVars, getVars, log, puts, calls, txVars>>

\* A pulse on a rail nobody listens to.
EdgeLost ==
    /\ PulseDue
    /\ (IF NextRail = "D0" THEN cb0 ELSE cb1) # "on"
    /\ delivered' = delivered + 1
    /\ sincePulse' = 0
    /\ burst' = Arrive(burst, FALSE)
    /\ UNCHANGED <<readerVars, wire, prev, nbursts, getVars, histVars, txVars>>

\* Within a burst the next pulse follows in less than Gap.
InBurst == delivered > 0 /\ (delivered < Len(wire) \/ txpc # "idle")

Clock(c) == Min(c + 1, Gap + 2)

\* One millisecond passes.  The watcher, once its sleep is over, polls
\* before the next millisecond has passed; nobody holds the lock that long.
Tick ==
    /\ lock = "free"
    /\ thread \notin {"loop", "locked"}
    /\ ~(thread = "sleep" /\ slept)
    /\ InBurst => sincePulse + 1 < Gap
    /\ sinceLast' = Clock(sinceLast)
    /\ sincePulse' = Clock(sincePulse)
    /\ slept' = IF thread = "sleep" THEN TRUE ELSE slept
    /\ gwaited' = IF gpc = "waiting" /\ gtimeout # NoTimeout
                    THEN Min(gwaited + 1, gtimeout) ELSE gwaited
    /\ UNCHANGED <<instance, rxCfg, h, cb0, cb1, bits, lock, frames, stop, thread,
                   wframe, ipc, gpc, gtimeout, gresult, ginit, got, gpc2,
                   took, wire,
                   delivered, burst, prev, nbursts, histVars, txVars>>

\* _frame_watcher: while not self._stop.is_set(): time.sleep(0.001)
WatcherLoop ==
    /\ thread = "loop"
    /\ thread' = IF stop THEN "done" ELSE "sleep"
    /\ slept' = FALSE
    /\ UNCHANGED <<instance, rxCfg, h, cb0, cb1, bits, sinceLast, lock, frames, stop,
                   wframe, ipc, getVars, wireVars, histVars, txVars>>

\* _frame_watcher: with self._lock (entry)
WatcherLock ==
    /\ thread = "sleep"
    /\ slept
    /\ lock = "free"
    /\ lock' = "watcher"
    /\ thread' = "locked"
    /\ UNCHANGED <<instance, rxCfg, h, cb0, cb1, bits, sinceLast, frames, stop,
                   slept, wframe, ipc, getVars, wireVars, histVars, txVars>>

\* Mutant: the watcher leaves its critical section without releasing.
KeepLock(l) == l

\* _frame_watcher: the exit of `with self._lock`
Release(l) == "free"

\* _frame_watcher, under the lock: the test, the fold of value and
\* n = len(self._bits); the lock is released at once when the test fails
WatcherPoll ==
    /\ thread = "locked"
    /\ IF bits # <<>> /\ Expired(sinceLast, rxCfg.gap)
          THEN /\ wframe' = [n |-> Len(bits), value |-> FrameValue(bits)]
               /\ thread' = "folded"
               /\ UNCHANGED lock
          ELSE /\ lock' = Release(lock)
               /\ thread' = "loop"
               /\ UNCHANGED wframe
    /\ UNCHANGED <<instance, rxCfg, h, cb0, cb1, bits, sinceLast, frames, stop,
                   slept, ipc, getVars, wireVars, histVars, txVars>>

\* Mutant: the accumulator is not cleared.
UnclearedBits == bits

\* _frame_watcher: self._bits = []
ClearedBits == <<>>

\* _frame_watcher, under the lock: self._bits = []
WatcherClear ==
    /\ thread = "folded"
    /\ bits' = ClearedBits
    /\ log' = Append(log, wframe)
    /\ thread' = "cleared"
    /\ UNCHANGED <<instance, rxCfg, h, cb0, cb1, sinceLast, lock, frames, stop,
                   slept, wframe, ipc, puts, calls, edges, lastGpio,
                   getVars, wireVars, txVars>>

\* _frame_watcher, under the lock: if n == 32: self._frames.put(value),
\* and the release
WatcherPut ==
    /\ thread = "cleared"
    /\ IF Accept(wframe.n)
          THEN /\ frames' = Append(frames, wframe.value)
               /\ puts' = Append(puts, wframe.value)
          ELSE UNCHANGED <<frames, puts>>
    /\ wframe' = NoFrame
    /\ lock' = Release(lock)
    /\ thread' = "loop"
    /\ UNCHANGED <<instance, rxCfg, h, cb0, cb1, bits, sinceLast, stop, slept, ipc,
                   log, calls, edges, lastGpio, getVars, wireVars, txVars>>

\* ------------------------------------------------------ receiver: consumers

\* The timeouts callers pass: none or a number of milliseconds.
Timeouts == {NoTimeout} \cup (0..MaxTimeout)

\* Mutant: queue.Empty is not caught.
EmptyRaised == "queue.Empty"

\* get_32bit: except queue.Empty: return None
EmptyResult == None

\* get_card_id: if _instance is None: raise RuntimeError
ReaderNotInitialized(inst) == inst = None

\* get_card_id(timeout=t) up to the entry of self._frames.get
GetCall(t) ==
    /\ gpc = "idle"
    /\ gtimeout' = t
    /\ gwaited' = 0
    /\ ginit' = Initialized
    /\ IF ReaderNotInitialized(instance)
          THEN gresult' = "RuntimeError" /\ gpc' = "idle"
          ELSE gresult' = "pending" /\ gpc' = "waiting"
    /\ UNCHANGED <<got, gpc2, took, readerVars, wireVars, histVars, txVars>>

\* Mutant: get returns the oldest item and leaves it on the queue.
QueuePeek(q) == [item |-> Head(q), rest |-> q]

\* Mutant: the queue is a LifoQueue.
QueueGetNewest(q) == [item |-> q[Len(q)], rest |-> SubSeq(q, 1, Len(q) - 1)]

\* self._frames = queue.Queue(): get takes the oldest item
QueueGet(q) == [item |-> Head(q), rest |-> Tail(q)]

\* get_32bit: return self._frames.get(timeout=timeout), a frame is there
GetFrame ==
    /\ gpc = "waiting"
    /\ frames # <<>>
    /\ gresult' = "frame"
    /\ got' = Append(got, QueueGet(frames).item)
    /\ took' = Append(took, 1)
    /\ frames' = QueueGet(frames).rest
    /\ gpc' = "idle"
    /\ UNCHANGED <<instance, rxCfg, h, cb0, cb1, bits, sinceLast, lock, stop, thread,
                   slept, wframe, ipc, gtimeout, gwaited, ginit, gpc2, wireVars,
                   histVars, txVars>>

\* get_card_id() called by a second context, up to the entry of
\* self._frames.get
GetCall2 ==
    /\ gpc2 = "idle"
    /\ ~ReaderNotInitialized(instance)
    /\ gpc2' = "waiting"
    /\ UNCHANGED <<gpc, gtimeout, gwaited, gresult, ginit, got, took,
                   readerVars, wireVars, histVars, txVars>>

\* get_32bit of the second caller: self._frames.get returns a frame
GetFrame2 ==
    /\ gpc2 = "waiting"
    /\ frames # <<>>
    /\ got' = Append(got, QueueGet(frames).item)
    /\ took' = Append(took, 2)
    /\ frames' = QueueGet(frames).rest
    /\ gpc2' = "idle"
    /\ UNCHANGED <<instance, rxCfg, h, cb0, cb1, bits, sinceLast, lock, stop, thread,
                   slept, wframe, ipc, gpc, gtimeout, gwaited, gresult, ginit,
                   wireVars, histVars, txVars>>

\* queue.Queue.get raises queue.Empty once the timeout has elapsed
GetEmpty ==
    /\ gpc = "waiting"
    /\ frames = <<>>
    /\ gtimeout # NoTimeout
    /\ gwaited >= gtimeout
    /\ gresult' = EmptyResult
    /\ gpc' = "idle"
    /\ UNCHANGED <<got, gtimeout, gwaited, ginit, gpc2, took, readerVars,
                   wireVars, histVars, txVars>>

\* ------------------------------------------------------------ the card head

\* The codes of the cards presented: 0xDEADBEEF and 0x12345678.
CardValues == { DeadBeef, <<22136, 4660>> }

BurstLens == {26, 32, 34}

\* The n pulses of a card code, most significant bit first.
CardPulses(v, n) ==
    LET s == FormatBin(AndMask(v, n), n)
    IN  [i \in 1..n |-> IF s[i] = "1" THEN "D1" ELSE "D0"]

NoBurst == [v |-> <<>>, n |-> 0, sep |-> 0, alone |-> FALSE, whole |-> FALSE,
            puts |-> 0, logs |-> 0]

NewBurst(v, n) == [v |-> v, n |-> n, sep |-> 0, alone |-> FALSE,
                   whole |-> TRUE, puts |-> 0, logs |-> 0]

\* No call of initialize_card_reader or disconnect_card_reader is in
\* progress and the reader is initialized.
Started == Initialized /\ ipc = "idle"

\* A card head sends a burst of n pulses to the started reader.
Present(v, n) ==
    /\ nbursts < MaxBursts
    /\ Started
    /\ delivered = Len(wire)
    /\ txpc = "idle"
    /\ wire' = CardPulses(v, n)
    /\ delivered' = 0
    /\ burst' = NewBurst(v, n)
    /\ prev' = burst
    /\ nbursts' = nbursts + 1
    /\ UNCHANGED <<sincePulse, readerVars, getVars, histVars, txVars>>

\* The transmitter's rails are wired to the reader's: send_w32(value)
LoopSend(value) ==
    /\ nbursts < MaxBursts
    /\ Started
    /\ delivered = Len(wire)
    /\ txInstance # None
    /\ SendCall("send_w32", value)
    /\ burst' = NewBurst(value, FrameBits)
    /\ prev' = burst
    /\ nbursts' = nbursts + 1
    /\ UNCHANGED <<sincePulse, readerVars, getVars, histVars>>

\* ------------------------------------------------------------ specifications

Init ==
    /\ instance = None /\ h = None /\ cb0 = None /\ cb1 = None
    /\ rxCfg = DefaultRxCfg
    /\ txTiming = [t_low_us |-> TLow(DefaultTxAsked.t_low_us),
                   t_space_us |-> TSpace(DefaultTxAsked.t_space_us)]
    /\ bits = <<>> /\ sinceLast = 0 /\ lock = "free" /\ frames = <<>>
    /\ stop = FALSE /\ thread = "none" /\ slept = FALSE /\ ipc = "idle"
    /\ gpc = "idle" /\ gtimeout = NoTimeout /\ gwaited = 0 /\ gresult = "none"
    /\ ginit = FALSE /\ got = <<>> /\ gpc2 = "idle" /\ took = <<>>
    /\ wire = <<>> /\ delivered = 0 /\ sincePulse = Gap + 2
    /\ burst = NoBurst /\ prev = NoBurst /\ nbursts = 0
    /\ log = <<>> /\ puts = <<>> /\ calls = NoCalls
    /\ wframe = NoFrame /\ edges = <<>> /\ lastGpio = NoGpio
    /\ txInstance = None /\ txH = None /\ activeHigh = TRUE
    /\ level = [p \in TxPins |-> IdleLevel(TRUE)]
    /\ txpc = "idle" /\ txBits = <<>> /\ txCall = NoCall
    /\ txpc2 = "idle" /\ txBits2 = <<>>

\* initialize_card_reader, step by step
Initialize ==
    \/ InitCreate \/ StartOpen \/ StartClaim \/ StartCb0 \/ StartCb1
    \/ StartThread

Watcher ==
    WatcherLoop \/ WatcherLock \/ WatcherPoll \/ WatcherClear \/ WatcherPut

\* The watcher on lines no card is wired to: the accumulator stays empty
WatcherIdle == WatcherLoop \/ WatcherLock \/ WatcherPoll

Consumer == (\E t \in Timeouts : GetCall(t)) \/ GetFrame \/ GetEmpty

\* A caller of get_card_id on a channel that stays empty
ConsumerEmpty == (\E t \in Timeouts : GetCall(t)) \/ GetEmpty

\* The transmitter alone.
NextTx ==
    \/ \E ah \in BOOLEAN : InitializeWiegandTx(ah)
    \/ \E v \in TxValues : Send("send_w32", v)
    \/ \E v \in TxValues : Send("send_w32_parity_1_30_1", v)
    \/ PulseDrive
    \/ PulseIdle
    \/ CloseWiegandTx

SpecTx == Init /\ [][NextTx]_vars

\* The values two concurrent callers send.
Tx2Values == {DeadBeef, <<22136, 4660>>}

\* A call of send_w32 by the first context, the second caller being outside
\* send_w32.
SendFirst(value) == txpc2 = "idle" /\ Send("send_w32", value)

\* The transmitter with two contexts that call send_w32.
NextTx2 ==
    \/ \E ah \in BOOLEAN : InitializeWiegandTx(ah)
    \/ \E v \in Tx2Values : SendFirst(v)
    \/ \E v \in Tx2Values : Send2(v)
    \/ PulseDrive
    \/ PulseIdle
    \/ PulseDrive2
    \/ PulseIdle2

SpecTx2 == Init /\ [][NextTx2]_vars

\* The reader and a card head.
NextCapture ==
    \/ Initialize
    \/ \E v \in CardValues, n \in BurstLens : Present(v, n)
    \/ OnEdge \/ Tick
    \/ Watcher

SpecCapture == Init /\ [][NextCapture]_vars

\* The reader, a card head and a caller of get_card_id.
Next ==
    \/ Initialize
    \/ \E v \in CardValues : Present(v, FrameBits)
    \/ OnEdge \/ Tick
    \/ Watcher
    \/ Consumer

Spec == Init /\ [][Next]_vars

\* The reader, a card head presenting 0xDEADBEEF, and callbacks for other
\* lines.
NextEdges ==
    \/ Initialize
    \/ Present(DeadBeef, FrameBits)
    \/ OnEdge
    \/ \E g \in StrayGpios : OnEdgeStray(g)
    \/ Tick
    \/ Watcher

SpecEdges == Init /\ [][NextEdges]_vars

\* A caller of get_card_id that waits without timeout
ConsumerWait == GetCall(NoTimeout) \/ GetFrame

\* The reader, a card head presenting 0xDEADBEEF and a caller that waits.
NextLive ==
    \/ Initialize
    \/ Present(DeadBeef, FrameBits)
    \/ OnEdge \/ Tick
    \/ Watcher
    \/ ConsumerWait

SpecLive == Init /\ [][NextLive]_vars

\* The watcher thread, the callback thread and the thread of the caller of
\* get_card_id are scheduled, and time passes.
FairLive ==
    /\ SpecLive
    /\ WF_vars(Tick) /\ WF_vars(Watcher) /\ WF_vars(OnEdge)
    /\ WF_vars(GetFrame)

\* Line configurations passed to initialize_card_reader: the default one, a
\* gap of zero, other lines with a gap of one millisecond.
RxConfigs ==
    { DefaultRxCfg,
      [d0 |-> DEFAULT_D0_PIN, d1 |-> DEFAULT_D1_PIN, gap |-> 0],
      [d0 |-> DEFAULT_D0_TX, d1 |-> DEFAULT_D1_TX, gap |-> 1] }

\* Configurations passed to initialize_wiegand_tx (timings in tenths of a
\* microsecond): the default one, 15.9 us / 199.9 us active low, and
\* 20.5 us / 200.5 us.
TxAskeds ==
    { DefaultTxAsked,
      [t_low_us |-> 159, t_space_us |-> 1999, active_high |-> FALSE],
      [t_low_us |-> 205, t_space_us |-> 2005, active_high |-> TRUE] }

\* The lifecycle of the reader and of the transmitter, each initialize call
\* with a configuration of its own.
NextConfig ==
    \/ \E cfg \in RxConfigs : InitCreateWith(cfg)
    \/ StartOpen \/ StartClaim \/ StartCb0 \/ StartCb1 \/ StartThread
    \/ DisconnectCardReader
    \/ Tick
    \/ WatcherIdle
    \/ \E a \in TxAskeds :
          InitializeWiegandTxWith(a.t_low_us, a.t_space_us, a.active_high)
    \/ CloseWiegandTx

SpecConfig == Init /\ [][NextConfig]_vars

\* ------------------------------------------- card_reader_test.py: the script

\* A report without decoded fields.
NoField == -1

\* flush is not running: its locals, the accumulator as the fold read it and
\* the length the gap test found.
NoFlush == [n |-> 0, value |-> <<>>, taken |-> <<>>, seen |-> 0]

\* Mutant: the trailing parity bit is not shifted out of the data.
Data26NoShift(value) == AndMask(value, 24)

\* flush, n == 26: data = (value >> 1) & ((1 << 24) - 1)
Data26(value) == AndMask(Shr(value, 1), 24)

\* flush, n == 34: data = (value >> 1) & ((1 << 32) - 1)
Data34(value) == AndMask(Shr(value, 1), 32)

\* flush: the fields it prints for a value of n bits
Decode(value, n) ==
    IF n = 26
       THEN [kind |-> "Wiegand-26",
             p0 |-> ToInt(AndMask(Shr(value, 25), 1)),
             p1 |-> ToInt(AndMask(value, 1)),
             facility |-> ToInt(AndMask(Shr(Data26(value), 16), 8)),
             card |-> ToInt(AndMask(Data26(value), 16))]
    ELSE IF n = 34
       THEN [kind |-> "Wiegand-34",
             p0 |-> ToInt(AndMask(Shr(value, 33), 1)),
             p1 |-> ToInt(AndMask(value, 1)),
             facility |-> ToInt(AndMask(Shr(Data34(value), 16), 16)),
             card |-> ToInt(AndMask(Data34(value), 16))]
    ELSE [kind |-> "Wiegand", p0 |-> NoField, p1 |-> NoField,
          facility |-> NoField, card |-> NoField]

\* The line flush prints.
Report(fr) ==
    LET d == Decode(fr.value, fr.n)
    IN  [n |-> fr.n, value |-> fr.value, taken |-> fr.taken, seen |-> fr.seen,
         kind |-> d.kind, p0 |-> d.p0, p1 |-> d.p1,
         facility |-> d.facility, card |-> d.card]

\* The cards presented to the script: the low 26 bits of 0xDEADBEEF and
\* the 34 bits of 0x312345678.
DecodeCards == { [v |-> DeadBeef, n |-> 26], [v |-> <<22136, 4660, 3>>, n |-> 34] }

\* A card head sends a burst of n pulses to the script's lines.
CardSends(v, n) ==
    /\ nbursts < MaxBursts
    /\ delivered = Len(wire)
    /\ wire' = CardPulses(v, n)
    /\ delivered' = 0
    /\ burst' = NewBurst(v, n)
    /\ prev' = burst
    /\ nbursts' = nbursts + 1
    /\ UNCHANGED <<sincePulse, readerVars, getVars, histVars, txVars>>

\* on_edge of the script, on the callback thread: no lock is taken
on_edge ==
    /\ PulseDue
    /\ thread \in {"flush", "value", "count"} =>
          Len(bits) - wframe.seen < MaxRace
    /\ bits' = OnEdgeBits(bits, RxGpio(NextRail))
    /\ sinceLast' = OnEdgeLast(sinceLast, RxGpio(NextRail))
    /\ edges' = edges \o SubSeq(bits', Len(bits) + 1, Len(bits'))
    /\ lastGpio' = RxGpio(NextRail)
    /\ delivered' = delivered + 1
    /\ sincePulse' = 0
    /\ burst' = Arrive(burst, TRUE)
    /\ UNCHANGED <<instance, rxCfg, h, cb0, cb1, lock, frames, stop, thread,
                   slept, wframe, ipc, wire, prev, nbursts, getVars, log, puts,
                   calls, txVars>>

\* One millisecond passes while the main loop is in time.sleep(0.001).
SleepTick ==
    /\ thread = "wait" /\ ~slept
    /\ InBurst => sincePulse + 1 < Gap
    /\ sinceLast' = Clock(sinceLast)
    /\ sincePulse' = Clock(sincePulse)
    /\ slept' = TRUE
    /\ UNCHANGED <<instance, rxCfg, h, cb0, cb1, bits, lock, frames, stop,
                   thread, wframe, ipc, getVars, wire, delivered, burst, prev,
                   nbursts, histVars, txVars>>

\* main loop: time.sleep(0.001) returns
SleepEnds ==
    /\ thread = "wait" /\ slept
    /\ thread' = "poll"
    /\ slept' = FALSE
    /\ UNCHANGED <<instance, rxCfg, h, cb0, cb1, bits, sinceLast, lock, frames,
                   stop, wframe, ipc, getVars, wireVars, histVars, txVars>>

\* main loop: if time.monotonic() - last > GAP: flush()
PollGap ==
    /\ thread = "poll"
    /\ IF Expired(sinceLast, Gap)
          THEN /\ thread' = "flush"
               /\ wframe' = [NoFlush EXCEPT !.seen = Len(bits)]
          ELSE /\ thread' = "wait"
               /\ UNCHANGED wframe
    /\ UNCHANGED <<instance, rxCfg, h, cb0, cb1, bits, sinceLast, lock, frames,
                   stop, slept, ipc, getVars, wireVars, histVars, txVars>>

\* flush: if not bits: return; value = 0; for b in bits: value = ..  (the
\* loop reads the list as it is when it ends)
FlushFold ==
    /\ thread = "flush"
    /\ IF bits = <<>>
          THEN /\ thread' = "wait"
               /\ wframe' = NoFlush
          ELSE /\ thread' = "value"
               /\ wframe' = [wframe EXCEPT !.value = FrameValue(bits),
                                           !.taken = bits]
    /\ UNCHANGED <<instance, rxCfg, h, cb0, cb1, bits, sinceLast, lock, frames,
                   stop, slept, ipc, getVars, wireVars, histVars, txVars>>

\* flush: n = len(bits)
FlushLen ==
    /\ thread = "value"
    /\ wframe' = [wframe EXCEPT !.n = Len(bits)]
    /\ thread' = "count"
    /\ UNCHANGED <<instance, rxCfg, h, cb0, cb1, bits, sinceLast, lock, frames,
                   stop, slept, ipc, getVars, wireVars, histVars, txVars>>

\* flush: the decode, the print and bits = []
FlushPrint ==
    /\ thread = "count"
    /\ log' = Append(log, Report(wframe))
    /\ bits' = <<>>
    /\ wframe' = NoFlush
    /\ thread' = "wait"
    /\ UNCHANGED <<instance, rxCfg, h, cb0, cb1, sinceLast, lock, frames,
                   stop, slept, ipc, getVars, wireVars, puts, calls, edges,
                   lastGpio, txVars>>

\* The script after its callbacks are registered: the chip is open, both
\* callbacks are on, the main loop is at its gap test.
InitDecode ==
    /\ instance = None /\ h = "open" /\ cb0 = "on" /\ cb1 = "on"
    /\ rxCfg = DefaultRxCfg
    /\ txTiming = [t_low_us |-> TLow(DefaultTxAsked.t_low_us),
                   t_space_us |-> TSpace(DefaultTxAsked.t_space_us)]
    /\ bits = <<>> /\ sinceLast = 0 /\ lock = "free" /\ frames = <<>>
    /\ stop = FALSE /\ thread = "poll" /\ slept = FALSE /\ ipc = "idle"
    /\ gpc = "idle" /\ gtimeout = NoTimeout /\ gwaited = 0 /\ gresult = "none"
    /\ ginit = FALSE /\ got = <<>> /\ gpc2 = "idle" /\ took = <<>>
    /\ wire = <<>> /\ delivered = 0 /\ sincePulse = Gap + 2
    /\ burst = NoBurst /\ prev = NoBurst /\ nbursts = 0
    /\ log = <<>> /\ puts = <<>> /\ calls = NoCalls
    /\ wframe = NoFlush /\ edges = <<>> /\ lastGpio = NoGpio
    /\ txInstance = None /\ txH = None /\ activeHigh = TRUE
    /\ level = [p \in TxPins |-> IdleLevel(TRUE)]
    /\ txpc = "idle" /\ txBits = <<>> /\ txCall = NoCall
    /\ txpc2 = "idle" /\ txBits2 = <<>>

\* The script and a card head.
NextDecode ==
    \/ \E c \in DecodeCards : CardSends(c.v, c.n)
    \/ on_edge
    \/ SleepTick \/ SleepEnds
    \/ PollGap
    \/ FlushFold \/ FlushLen \/ FlushPrint

SpecDecode == InitDecode /\ [][NextDecode]_vars

\* The values of the cards presented to two callers.
TwoValues == {DeadBeef, <<22136, 4660>>}

\* The reader, a card head and two contexts that call get_card_id without
\* timeout.
NextTwo ==
    \/ Initialize
    \/ \E v \in TwoValues : Present(v, FrameBits)
    \/ OnEdge \/ Tick
    \/ Watcher
    \/ ConsumerWait
    \/ GetCall2 \/ GetFrame2

SpecTwo == Init /\ [][NextTwo]_vars

\* The same threads; a callback that waits for the accumulator lock gets it
\* at one of the watcher's releases (the watcher sleeps a millisecond
\* between two acquisitions).
FairLock ==
    /\ SpecLive
    /\ WF_vars(Tick) /\ WF_vars(Watcher) /\ SF_vars(OnEdge)
    /\ WF_vars(GetFrame)

\* The callback thread delivers a pulse before the transmitter sends the next.
LoopPulse == delivered = Len(wire) /\ PulseDrive

\* The values sent over the loop: 0xDEADBEEF, 1 and 0x1DEADBEEF.
LoopValues == { DeadBeef, <<1>>, <<48879, 57005, 1>> }

\* The reader's lifecycle and a caller of get_card_id; no card is presented.
NextGet ==
    \/ Initialize
    \/ DisconnectCardReader
    \/ Tick
    \/ WatcherIdle
    \/ ConsumerEmpty

SpecGet == Init /\ [][NextGet]_vars

\* The watcher thread and the caller's thread are scheduled, and time passes.
FairGet ==
    /\ SpecGet
    /\ WF_vars(Tick) /\ WF_vars(WatcherIdle) /\ WF_vars(GetEmpty)

\* The transmitter wired to the reader.
NextLoop ==
    \/ Initialize
    \/ \E ah \in BOOLEAN : InitializeWiegandTx(ah)
    \/ \E v \in LoopValues : LoopSend(v)
    \/ LoopPulse \/ PulseIdle
    \/ OnEdge \/ Tick
    \/ Watcher

SpecLoop == Init /\ [][NextLoop]_vars

\* disconnect_card_reader called while no burst is on the wire.
DisconnectIdle == delivered = Len(wire) /\ DisconnectCardReader

\* The reader, a card and the context that initializes and disconnects.
NextQuiesce ==
    \/ Initialize
    \/ DisconnectIdle
    \/ Present(DeadBeef, FrameBits)
    \/ OnEdge \/ Tick
    \/ Watcher

SpecQuiesce == Init /\ [][NextQuiesce]_vars

\* initialize_card_reader in one context, disconnect_card_reader in another.
NextRace ==
    \/ Initialize
    \/ Disconnect
    \/ Tick
    \/ WatcherIdle

SpecRace == Init /\ [][NextRace]_vars

\* The lifecycle of the reader and of the transmitter, one context each, on
\* a GPIO chip whose calls may fail.
NextFail ==
    \/ Initialize
    \/ StartFails
    \/ DisconnectCardReader
    \/ Tick
    \/ WatcherIdle
    \/ \E ah \in BOOLEAN : InitializeWiegandTx(ah)
    \/ \E ah \in BOOLEAN, step \in {"open", "claim"} :
          InitializeWiegandTxFails(ah, step)
    \/ CloseWiegandTx

SpecFail == Init /\ [][NextFail]_vars

\* -------------------------------------------------------------------- claims

Last(q) == q[Len(q)]

\* The rails of a string of '0' and '1'.
Rails(str) == [i \in 1..Len(str) |-> IF str[i] = "1" THEN "D1" ELSE "D0"]

\* Pulses on the one rail among wire[a..b].
Ones(a, b) == Cardinality({i \in a..b : wire[i] = "D1"})

\* All n edges of the burst on the wire reached the started reader, the
\* first of them finding the accumulator empty.
Captured ==
    /\ burst.n > 0 /\ burst.whole /\ burst.alone
    /\ delivered = burst.n /\ txpc = "idle"

\* The silence after the last pulse has lasted beyond the gap timeout and the
\* watcher's poll that follows it.
Silence == sincePulse = Gap + 2

\* C1: the 32 pulses of send_w32(v), delivered to _on_edge less than the gap
\* timeout apart and followed by a silence longer than the gap timeout, are
\* finalized as exactly one frame, and its value is v: nothing is finalized
\* before the last pulse, and after the silence one finalization of 32 bits
\* has put v (the low 32 bits sent) on the channel (the put follows the
\* clearing of the accumulator inside the watcher's critical section).
C1_RoundTrip ==
    (burst.n = FrameBits /\ burst.whole /\ burst.alone /\ delivered >= 1) =>
        /\ Len(log) \in {burst.logs, burst.logs + 1}
        /\ delivered < FrameBits => Len(log) = burst.logs
        /\ Len(log) = burst.logs + 1 =>
              /\ Last(log) = [n |-> FrameBits, value |-> AndMask(burst.v, 32)]
              /\ thread # "cleared" =>
                    /\ Len(puts) = burst.puts + 1
                    /\ Last(puts) = AndMask(burst.v, 32)
        /\ (Captured /\ Silence) => (Len(log) = burst.logs + 1 /\ bits = <<>>)

C1_Witness ==
    /\ Captured /\ Silence
    /\ txCall.op = "send_w32" /\ txCall.value = DeadBeef
    /\ puts # <<>> /\ Last(puts) = DeadBeef

\* C2: a burst of n edges followed by a silence exceeding the gap timeout
\* puts exactly one frame on the channel when n = 32 and none when n is
\* any other length; the burst is finalized once, the watcher goes on
\* running (no error) and the accumulator is left empty.
C2_LengthPolicy ==
    (Captured /\ Silence) =>
        /\ bits = <<>>
        /\ Alive
        /\ Len(log) = burst.logs + 1
        /\ Last(log).n = burst.n
        /\ Len(puts) = burst.puts + (IF burst.n = 32 THEN 1 ELSE 0)
        /\ Len(frames) = Len(puts)

C2_Witness ==
    /\ Captured /\ Silence
    /\ burst.n = 34 /\ prev.n = 32
    /\ Len(puts) = 1 /\ Len(log) = 2

\* Two bursts of 32 edges, each captured whole by the started reader, the
\* second completed and followed by a silence.
TwoBursts ==
    /\ prev.n = FrameBits /\ prev.whole /\ prev.alone
    /\ burst.n = FrameBits /\ burst.whole
    /\ delivered = FrameBits /\ Silence

InArrivalOrder ==
    /\ Len(puts) = prev.puts + 2
    /\ puts[prev.puts + 1] = AndMask(prev.v, 32)
    /\ puts[prev.puts + 2] = AndMask(burst.v, 32)

\* C3 as claimed: two consecutive bursts of 32 edges separated by a silence
\* exceeding the gap timeout, and followed by one, always produce exactly
\* two frames in arrival order and are never merged.  (The card head of the
\* model separates any two bursts by more than Gap.)
C3_AsClaimed ==
    (TwoBursts /\ burst.sep > Gap) => (burst.alone /\ InArrivalOrder)

\* C3 amended: two consecutive bursts of 32 edges separated by a silence
\* that exceeds the gap timeout by at least one poll period of the watcher
\* (1 ms), and followed by such a silence, produce exactly two frames in
\* arrival order and are not merged.
C3_TwoFrames ==
    (TwoBursts /\ burst.sep >= Gap + 2) => (burst.alone /\ InArrivalOrder)

C3_Witness ==
    /\ TwoBursts /\ burst.sep >= Gap + 2
    /\ puts = <<DeadBeef, <<22136, 4660>> >>

\* C4: get_card_id returns the frames in the order the watcher finalized
\* them: at any moment the frames returned so far, followed by those still
\* queued, are the frames put on the channel, in the order they were put.
C4_Fifo == got \o frames = puts

C4_Witness == Len(got) = 2 /\ got[1] # got[2] /\ got = puts

\* C5: on an initialized reader whose channel stays empty, get_card_id with
\* a finite timeout never raises, returns None, not before the timeout has
\* elapsed, and does return.
C5_Timeout ==
    /\ [](gresult # "queue.Empty")
    /\ []((gpc = "idle" /\ gresult = "None") =>
            (gtimeout # NoTimeout /\ gwaited >= gtimeout))
    /\ []((gpc = "waiting" /\ gtimeout # NoTimeout) => gwaited <= gtimeout)
    /\ ((gpc = "waiting" /\ gtimeout # NoTimeout) ~>
            (gpc = "idle" /\ gresult = "None"))

C5_Witness ==
    /\ gpc = "idle" /\ gresult = "None" /\ ginit
    /\ gtimeout = MaxTimeout /\ gwaited = MaxTimeout

\* C6 as claimed: a call of get_card_id made before initialize_card_reader
\* has completed, also while a call of it is in progress, ends with the
\* not-initialized error: it never waits on the channel, never returns None
\* and never returns a frame.
C6_AsClaimed == ~ginit => (gpc = "idle" /\ gresult \in {"none", "RuntimeError"})

\* C7: a send operation called while the transmitter is not initialized
\* (never initialized, or closed) raises RuntimeError and sends nothing.
C7_NotInitialized ==
    (txCall.op # "none" /\ ~txCall.initialized) =>
        /\ txCall.outcome = "RuntimeError"
        /\ txpc = "idle"
        /\ txBits = <<>>

C7_Witness ==
    /\ txCall.op = "send_w32_parity_1_30_1" /\ txCall.outcome = "RuntimeError"
    /\ txInstance = None /\ txH = None /\ Len(wire) = 32

\* 11011110101011011011111011101111
DeadBeefRails == Rails(<<"1","1","0","1","1","1","1","0","1","0","1","0","1","1","0","1",
                         "1","0","1","1","1","1","1","0","1","1","1","0","1","1","1","1">>)

\* C8: send_w32(value) emits exactly 32 pulses, and the i-th pulse is on the
\* one rail when bit 32 - i of value is 1 and on the zero rail when it is 0:
\* the binary digits of value mod 2^32, most significant first; 0xDEADBEEF
\* gives 11011110101011011011111011101111.
C8_SendRaw ==
    (txCall.op = "send_w32" /\ txCall.initialized) =>
        /\ Len(wire) <= 32
        /\ \A i \in 1..Len(wire) :
              wire[i] = (IF BitOf(txCall.value, 32 - i) = 1 THEN "D1" ELSE "D0")
        /\ txCall.outcome = "ok" => Len(wire) = 32
        /\ (txCall.outcome = "ok" /\ txCall.value = DeadBeef) => wire = DeadBeefRails

C8_Witness ==
    /\ txCall.op = "send_w32" /\ txCall.outcome = "ok"
    /\ txCall.value = <<48879, 57005, 1>>
    /\ wire = DeadBeefRails

\* C11: for every value send_w32_parity_1_30_1 emits exactly 32 pulses (the
\* assertion on the frame's length never fails), the pulses 2 to 31 are
\* bits 29 down to 0 of value, and the bits of value above bit 29 have no
\* influence: the frame is the frame of value mod 2^30.
C11_ParityLayout ==
    (txCall.op = "send_w32_parity_1_30_1" /\ txCall.initialized) =>
        /\ txCall.outcome \in {"sending", "ok"}
        /\ Len(wire) <= 32
        /\ Len(wire) + Len(txBits) = (IF txpc = "low" THEN 33 ELSE 32)
        /\ \A i \in 2..Min(Len(wire), 31) :
              wire[i] = (IF BitOf(txCall.value, 31 - i) = 1 THEN "D1" ELSE "D0")
        /\ txCall.outcome = "ok" =>
              /\ Len(wire) = 32
              /\ wire = Rails(ParityFrame(AndMask(txCall.value, 30)))

C11_Witness ==
    /\ txCall.op = "send_w32_parity_1_30_1" /\ txCall.outcome = "ok"
    /\ txCall.value = <<22136, 4660, 7>>
    /\ Len(wire) = 32
    /\ wire[2] = "D0" /\ wire[3] = "D1" /\ wire[31] = "D0"

\* The rail of a transmitter pin is at the level that asserts it.
RailActive(pin) == level[pin] = (IF activeHigh THEN 1 ELSE 0)

\* C12: while the transmitter's lines are claimed, the two rails are never
\* both active; during the active hold of a bit exactly the rail of that bit
\* is active (D1 for '1', D0 for '0') and it is the rail just pulsed; before
\* the first bit, between two bits (the spacing hold) and after the send has
\* returned both rails are idle.
C12_OneRail ==
    txH # None =>
        /\ ~(RailActive(DEFAULT_D0_TX) /\ RailActive(DEFAULT_D1_TX))
        /\ txpc = "low" =>
              /\ RailActive(DEFAULT_D1_TX) <=> (Head(txBits) = "1")
              /\ RailActive(DEFAULT_D0_TX) <=> (Head(txBits) = "0")
              /\ Last(wire) = (IF Head(txBits) = "1" THEN "D1" ELSE "D0")
        /\ txpc \in {"drive", "idle"} =>
              (~RailActive(DEFAULT_D0_TX) /\ ~RailActive(DEFAULT_D1_TX))

C12_Witness ==
    /\ txH # None /\ txpc = "low" /\ Len(wire) = 3
    /\ wire[1] = "D1" /\ wire[2] = "D1" /\ wire[3] = "D0"
    /\ RailActive(DEFAULT_D0_TX) /\ ~RailActive(DEFAULT_D1_TX)

\* C13: for both polarities the level written for active is the opposite of
\* the idle level, and the idle level is the level the lines are claimed
\* with; with active_high active is 1 and idle is 0, otherwise active is 0
\* and idle is 1.  On the claimed lines: the rail being pulsed holds the
\* active level and every other rail, at any time from the claim on, holds
\* the idle level.
C13_Polarity ==
    /\ \A ah \in BOOLEAN :
          /\ DriveLevel(TRUE, ah) = (IF ah THEN 1 ELSE 0)
          /\ IdleLevel(ah) = (IF ah THEN 0 ELSE 1)
          /\ ClaimLevel(ah) = IdleLevel(ah)
          /\ DriveLevel(TRUE, ah) = 1 - IdleLevel(ah)
    /\ txH # None =>
          \A p \in TxPins :
              level[p] =
                 IF txpc = "low" /\ p = (IF Head(txBits) = "1"
                                            THEN DEFAULT_D1_TX ELSE DEFAULT_D0_TX)
                    THEN (IF activeHigh THEN 1 ELSE 0)
                    ELSE (IF activeHigh THEN 0 ELSE 1)

C13_Witness ==
    /\ txH # None /\ ~activeHigh /\ txpc = "low" /\ Len(wire) >= 2
    /\ Head(txBits) = "1"
    /\ level[DEFAULT_D1_TX] = 0 /\ level[DEFAULT_D0_TX] = 1

\* C14: a call of initialize_card_reader made while the reader is started
\* raises nothing and calls neither gpiochip_open, gpio_claim_alert,
\* lgpio.callback nor Thread.start: the handle, the two callbacks and the
\* one watcher it found are those it leaves.  A watcher is only ever started
\* by a call that found the reader not started.
C14_InitIdempotent ==
    /\ calls.init.spawned => ~calls.init.started
    /\ calls.init.started =>
          /\ calls.init.outcome \in {"running", "ok"}
          /\ ipc = "idle" => calls.init.outcome = "ok"
          /\ ~calls.init.opened /\ ~calls.init.claimed
          /\ calls.init.registered = 0 /\ ~calls.init.spawned
          /\ calls.init.failed = "none"
          /\ instance # None =>
                (h = "open" /\ cb0 = "on" /\ cb1 = "on" /\ Alive /\ ~stop)

C14_Witness ==
    /\ calls.init.started /\ calls.init.outcome = "ok" /\ ipc = "idle"
    /\ Initialized /\ h = "open" /\ cb0 = "on" /\ cb1 = "on"
    /\ thread = "sleep" /\ sinceLast = Gap + 2

\* C15: disconnect_card_reader called while _instance is None (never
\* initialized, or already disconnected) raises nothing, does not call
\* stop(), cancels no callback and closes no handle; the call leaves
\* _instance None and changes no field of the reader.
C15_ShutdownIdempotent ==
    /\ []((calls.disc.outcome # "none" /\ ~calls.disc.had) =>
             /\ calls.disc.outcome = "ok"
             /\ ~calls.disc.stopped
             /\ calls.disc.cancelled = 0
             /\ ~calls.disc.closed)
    /\ [][(instance = None /\ calls.disc' # calls.disc) =>
             /\ instance' = None
             /\ <<h, cb0, cb1, stop, thread, bits, frames>>' =
                    <<h, cb0, cb1, stop, thread, bits, frames>>
             /\ h = None]_vars

C15_Witness ==
    /\ instance = None /\ stop /\ h = None
    /\ calls.init.outcome = "ok" /\ calls.init.spawned
    /\ calls.disc = [NoDisc EXCEPT !.outcome = "ok"]

\* C16: a call of initialize_wiegand_tx made while the transmitter is
\* started calls neither gpiochip_open nor gpio_claim_output and raises
\* nothing; close_wiegand_tx called while _instance is None (never
\* initialized, or closed) closes nothing and raises nothing.
C16_TxIdempotent ==
    /\ calls.txinit.started =>
          /\ calls.txinit.outcome = "ok"
          /\ ~calls.txinit.opened /\ ~calls.txinit.claimed
          /\ txH = "open" \/ txInstance = None
    /\ (calls.txclose.outcome # "none" /\ ~calls.txclose.had) =>
          /\ calls.txclose.outcome = "ok"
          /\ ~calls.txclose.closed
    /\ txInstance = None => txH = None

C16_Witness ==
    /\ calls.txinit.started /\ calls.txinit.outcome = "ok"
    /\ txInstance # None /\ txH = "open"
    /\ calls.txclose = [had |-> FALSE, closed |-> FALSE, outcome |-> "ok"]

\* C17 as claimed: once disconnect_card_reader has returned, the callbacks
\* are cancelled and the watcher has terminated, and nothing is finalized
\* any more.
C17_AsClaimed ==
    (calls.disc.stopped /\ instance = None /\ stop) =>
        /\ cb0 # "on" /\ cb1 # "on"
        /\ ~Alive
        /\ Len(log) = calls.disc.logs

\* C18 as claimed: whatever the interleaving of initialize and disconnect
\* calls, once _instance is None again and no call is in progress no GPIO
\* handle of the reader is open.
C18_AsClaimed == (instance = None /\ ipc = "idle") => h = None

\* C19: when gpiochip_open, a claim or a callback registration raises,
\* the call of initialize_card_reader (of initialize_wiegand_tx) ends there
\* with the error: the failed lgpio call is made once and nothing after
\* it is done.
C19_FailurePropagates ==
    /\ calls.init.failed # "none" =>
          /\ calls.init.outcome = "error"
          /\ ipc = "idle"
          /\ ~calls.init.spawned
          /\ calls.init.claimed = (calls.init.failed # "start")
          /\ calls.init.registered =
                (IF calls.init.failed = "cb0" THEN 1
                 ELSE IF calls.init.failed = "cb1" THEN 2 ELSE 0)
    /\ calls.txinit.failed # "none" =>
          /\ calls.txinit.outcome = "error"
          /\ calls.txinit.claimed = (calls.txinit.failed = "claim")

C19_Witness ==
    /\ calls.init.failed = "cb1" /\ calls.init.outcome = "error"
    /\ calls.txinit.failed = "claim" /\ calls.txinit.outcome = "error"
    /\ ipc = "idle" /\ thread = "new"

\* The k-th burst, of 32 edges, has reached the started reader whole, its
\* first edge finding the accumulator empty, and is not on the channel yet.
Pending(k) ==
    /\ nbursts = k /\ burst.n = FrameBits /\ burst.whole /\ burst.alone
    /\ delivered = FrameBits
    /\ Len(puts) = burst.puts

\* The k-th burst was finalized and its value put on the channel.
Enqueued(k) ==
    \/ /\ nbursts = k /\ delivered = FrameBits
       /\ Len(puts) > burst.puts
       /\ puts[burst.puts + 1] = AndMask(burst.v, 32)
    \/ /\ nbursts = k + 1
       /\ Len(puts) > prev.puts
       /\ puts[prev.puts + 1] = AndMask(prev.v, 32)
    \/ nbursts > k + 1

\* The burst after the k-th began before the silence had lasted one poll
\* period beyond the gap timeout.
EarlyNext(k) == nbursts = k + 1 /\ delivered >= 1 /\ burst.sep < Gap + 2

\* A caller waits in get_card_id, has been returned j frames so far, and a
\* frame is on the channel.
Blocked(j) == gpc = "waiting" /\ frames # <<>> /\ Len(got) = j

\* The caller's (j+1)-th frame is the (j+1)-th frame put on the channel.
Returned(j) == Len(got) > j /\ got[j + 1] = puts[j + 1]

\* The caller of get_card_id never leaves with None while a frame is on
\* the channel, and eventually leaves with the oldest frame.
GetsFrame ==
    /\ [][(gpc = "waiting" /\ frames # <<>> /\ gpc' = "idle") =>
             (gresult' = "frame" /\ got' = Append(got, Head(frames)))]_vars
    /\ \A j \in 0..(MaxBursts - 1) : Blocked(j) ~> Returned(j)

\* C20 as claimed: the threads being scheduled, every burst of 32 edges
\* followed by a silence exceeding the gap timeout (the card head of the
\* model begins no burst sooner) is eventually put on the channel, and a
\* caller waiting in get_card_id eventually returns it.
C20_AsClaimed ==
    /\ \A k \in 1..MaxBursts : Pending(k) ~> Enqueued(k)
    /\ GetsFrame

\* C20 amended: the same, for the bursts followed by a silence that exceeds
\* the gap timeout by at least one poll period of the watcher (1 ms).
C20_Liveness ==
    /\ \A k \in 1..MaxBursts : Pending(k) ~> (Enqueued(k) \/ EarlyNext(k))
    /\ GetsFrame

C20_Witness ==
    /\ nbursts = 2 /\ delivered = FrameBits /\ burst.alone /\ burst.whole
    /\ burst.sep = Gap + 2
    /\ gpc = "idle" /\ gresult = "frame" /\ gtimeout = NoTimeout
    /\ got = <<DeadBeef, DeadBeef>> /\ got = puts

\* The bits a finalization took from the accumulator, first captured first.
BitsOfEntry(e) ==
    LET str == FormatBin(e.value, e.n)
    IN  [k \in 1..Len(str) |-> IF str[k] = "1" THEN 1 ELSE 0]

RECURSIVE FinalizedFrom(_)
\* The bits of the finalizations from the i-th on, in order.
FinalizedFrom(i) ==
    IF i > Len(log) THEN <<>> ELSE BitsOfEntry(log[i]) \o FinalizedFrom(i + 1)

\* The bit _on_edge appends for a rail.
RailBit(rail) == IF rail = "D1" THEN 1 ELSE 0

\* C21: under every interleaving of edge callbacks and watcher steps, the
\* bits _on_edge appended are, in order, the bits of the finalized bursts
\* followed by the bits still in the accumulator: none lost, none twice, no
\* burst finalized twice, and an edge that meets a finalization is in that
\* burst whole or starts the next.
C21_NoBitLost ==
    /\ edges = FinalizedFrom(1) \o bits
    /\ thread = "folded" => wframe = [n |-> Len(bits), value |-> FrameValue(bits)]

C21_Witness ==
    /\ Len(log) = 1 /\ log[1].n = 34
    /\ thread = "locked" /\ Len(bits) = 5
    /\ Len(edges) = 39

IsFrame(e) == e.n = FrameBits

\* The number of bits finalized before the i-th finalization.
RECURSIVE BitsBefore(_)
BitsBefore(i) == IF i <= 1 THEN 0 ELSE BitsBefore(i - 1) + log[i - 1].n

\* C28: the value of every finalization is the unsigned integer whose binary
\* digits are the bits taken, the first captured most significant; the
\* values put on the channel are those of the finalizations of exactly 32
\* bits, in order, and each lies in 0 .. 2^32 - 1.
C28_FrameValue ==
    /\ \A i \in 1..Len(log) :
          /\ BitLength(log[i].value) <= log[i].n
          /\ \A k \in 1..log[i].n :
                BitOf(log[i].value, log[i].n - k) = edges[BitsBefore(i) + k]
    /\ LET frames32 == SelectSeq(log, IsFrame)
           done == IF thread = "cleared" /\ IsFrame(wframe)
                      THEN Len(frames32) - 1 ELSE Len(frames32)
       IN  puts = [i \in 1..done |-> frames32[i].value]
    /\ \A i \in 1..Len(puts) :
          /\ Len(puts[i]) <= 2
          /\ \A j \in 1..Len(puts[i]) : puts[i][j] \in 0..65535

C28_Witness ==
    /\ Len(log) = 2 /\ log[1].n = 26 /\ log[2].n = 32
    /\ log[1].value = <<22136, 564>>
    /\ puts = << <<22136, 4660>> >>

\* C29 as claimed: every finalization empties the accumulator and resets
\* the last-activity timestamp (the step changes monotonic() - _last).
C29_AsClaimed ==
    [][log' # log => (bits' = <<>> /\ sinceLast' # sinceLast)]_vars

\* C29 amended: every finalization, forwarded or dropped, takes the whole
\* accumulator and empties it inside the watcher's critical section, and
\* the lock is free only when no finalization is in progress: no other
\* context finds a finalized burst's bits in the accumulator.  (The
\* last-activity timestamp is left as it was.)
C29_ClearsAtomically ==
    /\ [](lock = "free" => (thread \notin {"folded", "cleared"}
                              /\ wframe = NoFrame))
    /\ [](thread = "cleared" => bits = <<>>)
    /\ [][log' # log =>
             /\ bits' = <<>>
             /\ lock = "watcher" /\ lock' = "watcher"
             /\ log' = Append(log, [n |-> Len(bits), value |-> FrameValue(bits)])
             /\ sinceLast' = sinceLast]_vars

C29_Witness ==
    /\ thread = "cleared" /\ wframe.n = 26 /\ bits = <<>>
    /\ Last(log).n = 26 /\ sinceLast = Gap + 1 /\ lock = "watcher"

\* C30: a call of _on_edge for D0 appends 0, for D1 appends 1, at the end
\* of the accumulator, and sets the timestamp to the time of the call; for
\* any other line it leaves both as they were; in every case the queue, the
\* handle, the callbacks, the stop flag, the watcher and the lock are left
\* as they were.
C30_OnEdgeEffect ==
    [][(lastGpio' # lastGpio \/ delivered' = delivered + 1) =>
          /\ lastGpio' = DEFAULT_D0_PIN =>
                (bits' = Append(bits, 0) /\ sinceLast' = 0)
          /\ lastGpio' = DEFAULT_D1_PIN =>
                (bits' = Append(bits, 1) /\ sinceLast' = 0)
          /\ lastGpio' \notin {DEFAULT_D0_PIN, DEFAULT_D1_PIN} =>
                (bits' = bits /\ sinceLast' = sinceLast)
          /\ delivered' = delivered + 1 =>
                lastGpio' = (IF wire[delivered + 1] = "D0"
                                THEN DEFAULT_D0_PIN ELSE DEFAULT_D1_PIN)
          /\ <<frames, h, cb0, cb1, stop, instance, thread, lock, wframe>>'
                = <<frames, h, cb0, cb1, stop, instance, thread, lock, wframe>>
      ]_vars

C30_Witness ==
    /\ lastGpio = DEFAULT_D1_TX /\ delivered = 3
    /\ bits = <<1, 1, 0>> /\ sinceLast = 1

\* C22: the reader is deadlock-free.  The watcher puts a frame on the
\* channel while it holds the accumulator lock, and with every thread
\* scheduled each critical section is completed: the watcher always
\* releases the lock, an edge whose callback is due is always appended, and
\* a caller of get_card_id that finds a frame on the channel always returns.
C22_DeadlockFree ==
    /\ [](thread \in {"folded", "cleared"} => lock = "watcher")
    /\ (lock = "watcher") ~> (lock = "free")
    /\ (cb0 = "on" /\ cb1 = "on" /\ delivered < Len(wire))
          ~> (delivered = Len(wire))
    /\ (gpc = "waiting" /\ frames # <<>>) ~> (gpc = "idle")

C22_Witness ==
    /\ thread = "cleared" /\ lock = "watcher" /\ wframe.n = FrameBits
    /\ cb0 = "on" /\ cb1 = "on" /\ delivered < Len(wire)
    /\ gpc = "waiting" /\ gtimeout = NoTimeout

\* C23 as claimed: whatever the interleaving of initialize_card_reader and
\* disconnect_card_reader on two contexts, once both have returned and
\* _instance is None, no session is left behind: the chip is closed, no
\* callback is registered and no watcher runs without having been told to
\* stop.
C23_AsClaimed ==
    (instance = None /\ ipc = "idle") =>
        /\ h = None
        /\ cb0 # "on" /\ cb1 # "on"
        /\ Alive => stop

\* C24 as claimed: when a second context calls send_w32 while the first is
\* sending, the two rails are never active together, and once both calls
\* have returned the pulse train is the first caller's frame followed by
\* the second's 32 pulses.
C24_AsClaimed ==
    txH # None =>
        /\ ~(RailActive(DEFAULT_D0_TX) /\ RailActive(DEFAULT_D1_TX))
        /\ (txpc = "idle" /\ txpc2 = "idle" /\ Len(wire) = 2 * FrameBits) =>
              SubSeq(wire, 1, FrameBits) = Rails(W32Bits(txCall.value))

\* C25 as claimed: after an initialize_card_reader that opened the chip and
\* then failed, get_card_id raises not-initialized, and an
\* initialize_card_reader that returns normally has left the lines claimed,
\* both callbacks registered and the watcher running.
C25_AsClaimed ==
    /\ (calls.init.outcome = "error" /\ calls.init.failed # "start"
           /\ ipc = "idle" /\ h # None)
          => ReaderNotInitialized(instance)
    /\ (calls.init.outcome = "ok" /\ ipc = "idle" /\ instance # None)
          => (cb0 = "on" /\ cb1 = "on" /\ Alive /\ ~stop)

\* C26 as claimed: a caller waiting in get_card_id without timeout when
\* disconnect_card_reader has been called eventually returns.
C26_AsClaimed ==
    (gpc = "waiting" /\ gtimeout = NoTimeout /\ instance = None /\ stop)
        ~> (gpc = "idle")

\* C31 as claimed: whenever an edge is due on a registered rail, _on_edge
\* can append its bit at once, without waiting for the watcher.
C31_AsClaimed ==
    (cb0 = "on" /\ cb1 = "on" /\ PulseDue) => LockFree(lock)

\* C31 amended: _on_edge waits for nothing but the accumulator lock; the
\* lock is only ever held by the watcher inside its critical section (the
\* test, the fold, the clearing and the put, none of which sleeps or waits),
\* and an edge that finds the lock held is appended once the watcher has
\* left the section: _on_edge always completes.
C31_WaitsForLockOnly ==
    /\ [](~LockFree(lock) =>
             (lock = "watcher" /\ thread \in {"locked", "folded", "cleared"}))
    /\ (cb0 = "on" /\ cb1 = "on" /\ PulseDue /\ ~LockFree(lock))
          ~> (delivered = Len(wire))

C31_Witness ==
    /\ cb0 = "on" /\ cb1 = "on" /\ PulseDue
    /\ lock = "watcher" /\ thread = "folded" /\ wframe.n = FrameBits

\* C32: while the reader session lasts, every finalization of exactly 32
\* bits is put on the channel once, and the values the calls of get_card_id
\* have returned, to whichever of two concurrent callers, followed by the
\* values still on the channel are the values put, in order: none returned
\* twice, none skipped, each returned to one caller.
C32_ExactlyOnce ==
    instance # None =>
        /\ puts = got \o frames
        /\ Len(took) = Len(got)
        /\ Len(puts) = Len(SelectSeq(log, IsFrame))
                         - (IF thread = "cleared" /\ IsFrame(wframe) THEN 1 ELSE 0)

C32_Witness ==
    /\ got = << DeadBeef, <<22136, 4660>> >> /\ took = <<2, 1>>
    /\ frames = <<>> /\ puts = got /\ gpc = "idle" /\ gpc2 = "waiting"

\* C33: a poll of the watcher that finds the accumulator empty, or the time
\* since the last edge not beyond the gap timeout, releases the lock and
\* changes nothing: accumulator, last-activity time and channel are as
\* before, nothing is finalized.
C33_IdlePoll ==
    [][(thread = "locked" /\ thread' # thread
          /\ (bits = <<>> \/ sinceLast <= Gap)) =>
             /\ thread' = "loop"
             /\ UNCHANGED <<bits, sinceLast, frames, log, puts, wframe>>]_vars

C33_Witness ==
    /\ thread = "loop" /\ slept /\ lock = "free"
    /\ Len(bits) = FrameBits /\ sinceLast = Gap /\ log = <<>>

\* C34 as claimed: the transmitter's stored pulse width is
\* max(20, int(input)) and its spacing max(200, int(input)) microseconds,
\* whatever the input, and the reader's gap timeout is positive, whatever
\* gap initialize_card_reader was given.
C34_AsClaimed ==
    /\ txInstance # None =>
          /\ txTiming.t_low_us >= MinTLowUs
          /\ txTiming.t_space_us >= MinTSpaceUs
          /\ calls.txinit.created =>
                /\ txTiming.t_low_us
                      = Max(MinTLowUs, IntOf(calls.txinit.asked.t_low_us))
                /\ txTiming.t_space_us
                      = Max(MinTSpaceUs, IntOf(calls.txinit.asked.t_space_us))
    /\ instance # None => rxCfg.gap > 0

\* C35: while the reader (the transmitter) instance exists, no step, and in
\* particular no further initialize call with other arguments, changes the
\* lines and gap (the timings and polarity) it was built with.
C35_ConfigKept ==
    [][/\ (instance # None /\ instance' # None) => rxCfg' = rxCfg
       /\ (txInstance # None /\ txInstance' # None) =>
             (txTiming' = txTiming /\ activeHigh' = activeHigh)]_vars

C35_Witness ==
    /\ instance # None /\ ipc = "idle" /\ calls.init.outcome = "ok"
    /\ ~calls.init.created /\ calls.init.asked.gap = 0 /\ rxCfg = DefaultRxCfg
    /\ txInstance # None /\ ~calls.txinit.created
    /\ calls.txinit.asked.t_low_us = 159 /\ ~calls.txinit.asked.active_high
    /\ txTiming.t_low_us = DEFAULT_T_LOW_US /\ activeHigh

RECURSIVE BitsToInt(_)
\* The number whose binary digits are bs, most significant first.
BitsToInt(bs) ==
    IF bs = <<>> THEN 0
    ELSE 2 * BitsToInt(SubSeq(bs, 1, Len(bs) - 1)) + bs[Len(bs)]

\* C36: in the script, a burst of 26 bits (26 bits counted, the same 26
\* folded) is reported with leading parity
\* = bit 1, facility code = bits 2..9, card number = bits 10..25, trailing
\* parity = bit 26; a burst of 34 bits with leading parity = bit 1,
\* facility code = bits 2..17, card number = bits 18..33, trailing parity
\* = bit 34; nothing is put on the reader's queue, and every report empties
\* the accumulator.
C36_Decode ==
    /\ [](frames = <<>> /\ puts = <<>>)
    /\ [](\A i \in 1..Len(log) :
            /\ (log[i].n = 26 /\ Len(log[i].taken) = 26) =>
                  /\ log[i].kind = "Wiegand-26"
                  /\ log[i].p0 = log[i].taken[1]
                  /\ log[i].facility = BitsToInt(SubSeq(log[i].taken, 2, 9))
                  /\ log[i].card = BitsToInt(SubSeq(log[i].taken, 10, 25))
                  /\ log[i].p1 = log[i].taken[26]
            /\ (log[i].n = 34 /\ Len(log[i].taken) = 34) =>
                  /\ log[i].kind = "Wiegand-34"
                  /\ log[i].p0 = log[i].taken[1]
                  /\ log[i].facility = BitsToInt(SubSeq(log[i].taken, 2, 17))
                  /\ log[i].card = BitsToInt(SubSeq(log[i].taken, 18, 33))
                  /\ log[i].p1 = log[i].taken[34])
    /\ [][log' # log => bits' = <<>>]_vars

C36_Witness ==
    /\ Len(log) = 2 /\ bits = <<>>
    /\ log[1].n = 26 /\ Len(log[1].taken) = 26
    /\ log[1].p0 = 1 /\ log[1].facility = 86 /\ log[1].card = 57207
    /\ log[1].p1 = 1
    /\ log[2].n = 34 /\ Len(log[2].taken) = 34
    /\ log[2].p0 = 1 /\ log[2].facility = 35098 /\ log[2].card = 11068
    /\ log[2].p1 = 0

\* C37 as claimed: in the script, whenever flush is not running, the bits
\* on_edge appended are the bits of the reports, in order, followed by the
\* accumulator; and no bit joins the list between the gap test and the
\* fold of the flush it allowed.
C37_AsClaimed ==
    /\ thread \in {"poll", "wait"} => edges = FinalizedFrom(1) \o bits
    /\ \A i \in 1..Len(log) : Len(log[i].taken) = log[i].seen

\* C9 as claimed: in the frame send_w32_parity_1_30_1 emits, the first 16
\* bits (the leading bit and the first 15 data bits) hold an even number of
\* set bits.
C9_AsClaimed ==
    (txCall.op = "send_w32_parity_1_30_1" /\ txCall.outcome = "ok") =>
        Ones(1, 16) % 2 = 0

\* C10 as claimed: in the frame send_w32_parity_1_30_1 emits, the last 16
\* bits (the last 15 data bits and the trailing bit) hold an odd number of
\* set bits.
C10_AsClaimed ==
    (txCall.op = "send_w32_parity_1_30_1" /\ txCall.outcome = "ok") =>
        Ones(17, 32) % 2 = 1

====
